---- MODULE Spec2Model ----
(***************************************************************************)
(* Model of the AMX coprocessor layer of spectral (src/arch/amx):          *)
(* the per-thread enable/disable lifecycle (AmxHandle, AmxCtx), the        *)
(* instruction emission of bus.rs / ops.rs, and a software model of the    *)
(* register banks in which each row instruction moves the 64 bytes at its  *)
(* encoded address.                                                        *)
(***************************************************************************)
EXTENDS Integers, Sequences, FiniteSets, TLC

(***************************************************************************)
(* Bounds of the model.                                                    *)
(***************************************************************************)
\* total number of API calls made in one run
MaxCalls == 3
\* number of nested Drop::drop -> disable frames the stack can hold
MaxDropDepth == 2
\* number of AmxHandle / AmxCtx values alive at once in the whole program
MaxHandles == 2

(***************************************************************************)
(* Program constants.                                                      *)
(***************************************************************************)
Threads == {"t1", "t2"}
RegSet == {"X", "Y", "Z"}
\* bytes in one register row
RowBytes == 64
\* rows of X and of Y
SmallRows == 8
\* rows of Z
LargeRows == 64
\* the stride set_matrix uses between the sub-slices it hands to set_vector
SliceStride == 8
\* opcode 17 is both configuration instructions; the operand tells them apart
OpConfig == 17
OperandSet == 0
OperandClr == 1

NumRows(set) == IF set = "Z" THEN LargeRows ELSE SmallRows
BankBytes(set) == NumRows(set) * RowBytes

(***************************************************************************)
(* Host memory.  A pointer names the buffer it points into and carries     *)
(* bits 63..56 (top) and bits 55..0 (low) of its address; every buffer     *)
(* starts at low address 0 of its own allocation.                          *)
(***************************************************************************)
Ptr(buf, len, top, low) == [buf |-> buf, len |-> len, top |-> top, low |-> low]
PtrOffset(p, n) == [p EXCEPT !.low = @ + n]

\* contents of the caller's buffers, by name
PatternNames == {"aa", "ramp"}
PatternByte(p, k) == IF p = "aa" THEN 170 ELSE k % 256
Data(p, len) == [j \in 1..len |-> PatternByte(p, j - 1)]

VARIABLES
    build,          \* the build: cfg(debug_assertions), cfg(feature = "debug")
    target_ok,      \* cfg!(target_arch = aarch64, target_os = macos, 64 bit)
    asimd,          \* is_aarch64_feature_detected!("asimd")
    AMX_ENABLED,    \* thread-local flag of mod.rs
    CTX_ACTIVE,     \* thread-local flag of init.rs
    held,           \* held[t][c]: live AmxHandle values owned by t, created by c
    ctxs,           \* ctxs[t]: live AmxCtx values of thread t
    pc,             \* "run", "drop" (inside Drop for AmxHandle), "overflow",
                    \* "xfer" (inside a whole-bank transfer), "panic"
    depth,          \* nested disable frames of the running drop; rows done
                    \* of the running whole-bank transfer
    log,            \* log[t]: instructions emitted by thread t, in order
    last,           \* last[t]: the last completed call of thread t
    prev,           \* prev[t]: the call completed before last[t]
    ncalls          \* API calls made so far

vars == <<build, target_ok, asimd, AMX_ENABLED, CTX_ACTIVE, held, ctxs, pc, depth,
          log, last, prev, ncalls>>

lifeVars == <<AMX_ENABLED, CTX_ACTIVE, held, ctxs, pc, depth>>

\* a completed call: its function, bank and buffer arguments, its outcome,
\* and, when it began, the number of live handles of the thread (for enable:
\* the live handles the thread's enable created; for new: its live contexts)
\* and the length of the thread's log; the instructions of the call are the
\* ones the log holds after that length
NoCall == [fn |-> "none", set |-> "-", data |-> "-", res |-> "-",
           live |-> 0, at |-> 0, arg |-> 0]
Call(fn, set, data, res, live, at) ==
    [fn |-> fn, set |-> set, data |-> data, res |-> res,
     live |-> live, at |-> at, arg |-> 0]
\* the same with the call's numeric argument: a row index or a length
CallArg(c, a) == [c EXCEPT !.arg = a]

Supported == target_ok /\ asimd

\* live AmxHandle values owned by thread t
Owned(t) == held[t]["t1"] + held[t]["t2"]
\* live AmxHandle values created by thread c, wherever they are
Created(c) == held["t1"][c] + held["t2"][c]
\* handles (of either type) alive in the whole program
Alive == Owned("t1") + Owned("t2") + ctxs["t1"] + ctxs["t2"]
\* live handles of either type in thread t
Live(t) == Owned(t) + ctxs[t]

\* a build: are debug assertions compiled in, is the cargo feature "debug" on
Build(dbg, feat) == [debug_assertions |-> dbg, feature_debug |-> feat]
Builds == {Build(d, f) : d, f \in BOOLEAN}
\* the optimised build without optional features
ReleaseBuild == Build(FALSE, FALSE)

InitOf(builds) ==
    /\ build \in builds
    /\ target_ok \in BOOLEAN
    /\ asimd \in BOOLEAN
    /\ AMX_ENABLED = [t \in Threads |-> FALSE]
    /\ CTX_ACTIVE = [t \in Threads |-> FALSE]
    /\ held = [t \in Threads |-> [c \in Threads |-> 0]]
    /\ ctxs = [t \in Threads |-> 0]
    /\ pc = [t \in Threads |-> "run"]
    /\ depth = [t \in Threads |-> 0]
    /\ log = [t \in Threads |-> <<>>]
    /\ last = [t \in Threads |-> NoCall]
    /\ prev = [t \in Threads |-> NoCall]
    /\ ncalls = 0

\* the program as built for release
Init == InitOf({ReleaseBuild})
\* the program in any build
InitBuilds == InitOf(Builds)
\* the program in any build, on a supported target
InitEnc == InitBuilds /\ Supported

(***************************************************************************)
(* Instruction emission.                                                   *)
(***************************************************************************)
\* an operand word: bits 63..56 and bits 55..0
Word(hi, lo) == [hi |-> hi, lo |-> lo]
\* an emitted instruction: opcode, operand word, and the host buffer the
\* operand's address points into (NoBuf when it carries no address)
NoBuf == [name |-> "-", len |-> 0]
Instr(op, w, b) == [op |-> op, w |-> w, buf |-> b]

\* emit_op(op, operand): one instruction is added to the thread's stream
emit_op(l, op, w) == Append(l, Instr(op, w, NoBuf))

\* set(): emit_op(17, 0)
set(l) == emit_op(l, OpConfig, Word(0, OperandSet))
\* clr(): emit_op(17, 1)
clr(l) == emit_op(l, OpConfig, Word(0, OperandClr))

IsEnable(i) == i.op = OpConfig /\ i.w = Word(0, OperandSet)
IsDisable(i) == i.op = OpConfig /\ i.w = Word(0, OperandClr)
IsConfig(i) == i.op = OpConfig

\* a call of thread t completes
Done(t, c) ==
    /\ prev' = [prev EXCEPT ![t] = last[t]]
    /\ last' = [last EXCEPT ![t] = c]
    /\ ncalls' = ncalls + 1

CanCall(t) == pc[t] = "run" /\ ncalls < MaxCalls

(***************************************************************************)
(* Lifecycle: AmxHandle (mod.rs) and AmxCtx (init.rs).                     *)
(***************************************************************************)
\* enable_outcome without the feature detection
enable_outcome_nofeature(tgt, feat, flag) ==
    IF ~tgt THEN "Unsupported"
    ELSE IF flag THEN "Exists"
    ELSE "Ok"

\* the outcome of AmxHandle::enable: target, then feature, then the flag
enable_outcome(tgt, feat, flag) ==
    IF ~tgt THEN "Unsupported"
    ELSE IF ~feat THEN "Unsupported"
    ELSE IF flag THEN "Exists"
    ELSE "Ok"

\* new_outcome with the cfg branches of the target exchanged
new_outcome_cfgswapped(tgt, feat, flag) ==
    IF flag THEN "Exists"
    ELSE IF ~tgt THEN (IF feat THEN "Ok" ELSE "Unsupported")
    ELSE "Unsupported"

\* the outcome of AmxCtx::new: the flag, then target and feature
new_outcome(tgt, feat, flag) ==
    IF flag THEN "Exists"
    ELSE IF tgt THEN (IF feat THEN "Ok" ELSE "Unsupported")
    ELSE "Unsupported"

AmxHandle_enable(t) ==
    /\ CanCall(t)
    /\ Alive < MaxHandles
    /\ LET r == enable_outcome(target_ok, asimd, AMX_ENABLED[t]) IN
       /\ IF r = "Ok"
          THEN /\ log' = [log EXCEPT ![t] = set(log[t])]
               /\ held' = [held EXCEPT ![t][t] = @ + 1]
          ELSE UNCHANGED <<log, held>>
       /\ Done(t, Call("enable", "-", "-", r, Created(t), Len(log[t])))
    /\ UNCHANGED <<build, target_ok, asimd, AMX_ENABLED, CTX_ACTIVE, ctxs, pc, depth>>

AmxCtx_new(t) ==
    /\ CanCall(t)
    /\ Alive < MaxHandles
    /\ LET r == new_outcome(target_ok, asimd, CTX_ACTIVE[t]) IN
       /\ IF r = "Ok"
          THEN /\ log' = [log EXCEPT ![t] = set(log[t])]
               /\ ctxs' = [ctxs EXCEPT ![t] = @ + 1]
          ELSE UNCHANGED <<log, ctxs>>
       /\ Done(t, Call("new", "-", "-", r, ctxs[t], Len(log[t])))
    /\ UNCHANGED <<build, target_ok, asimd, AMX_ENABLED, CTX_ACTIVE, held, pc, depth>>

\* a live AmxHandle owned by t goes out of scope: Drop::drop is entered
AmxHandle_drop(t, c) ==
    /\ CanCall(t)
    /\ held[t][c] > 0
    /\ held' = [held EXCEPT ![t][c] = @ - 1]
    /\ pc' = [pc EXCEPT ![t] = "drop"]
    /\ depth' = [depth EXCEPT ![t] = 0]
    /\ Done(t, Call("drop", "-", c, "-", Live(t), Len(log[t])))
    /\ UNCHANGED <<build, target_ok, asimd, AMX_ENABLED, CTX_ACTIVE, ctxs, log>>

\* drop calls disable(self); disable emits clr and clears the flag, and the
\* self it took by value is dropped when it returns: Drop::drop is entered again
AmxHandle_disable(t) ==
    /\ pc[t] = "drop"
    /\ depth[t] < MaxDropDepth
    /\ log' = [log EXCEPT ![t] = clr(log[t])]
    /\ AMX_ENABLED' = [AMX_ENABLED EXCEPT ![t] = FALSE]
    /\ depth' = [depth EXCEPT ![t] = @ + 1]
    /\ UNCHANGED <<build, target_ok, asimd, CTX_ACTIVE, held, ctxs, pc, last, prev,
                   ncalls>>

\* the recursion of drop and disable exhausts the stack
StackOverflow(t) ==
    /\ pc[t] = "drop"
    /\ depth[t] = MaxDropDepth
    /\ pc' = [pc EXCEPT ![t] = "overflow"]
    /\ UNCHANGED <<build, target_ok, asimd, AMX_ENABLED, CTX_ACTIVE, held, ctxs, depth,
                   log, last, prev, ncalls>>

\* a live AmxCtx goes out of scope
AmxCtx_drop(t) ==
    /\ CanCall(t)
    /\ ctxs[t] > 0
    /\ log' = [log EXCEPT ![t] = clr(log[t])]
    /\ CTX_ACTIVE' = [CTX_ACTIVE EXCEPT ![t] = FALSE]
    /\ ctxs' = [ctxs EXCEPT ![t] = @ - 1]
    /\ Done(t, Call("ctxdrop", "-", "-", "-", Live(t), Len(log[t])))
    /\ UNCHANGED <<build, target_ok, asimd, AMX_ENABLED, held, pc, depth>>

\* AmxHandle is a unit struct, so it is Send: a live handle is moved from
\* thread t to thread u
AmxHandle_send(t, u, c) ==
    /\ pc[t] = "run"
    /\ t # u
    /\ held[t][c] > 0
    /\ held' = [held EXCEPT ![t][c] = @ - 1, ![u][c] = @ + 1]
    /\ UNCHANGED <<build, target_ok, asimd, AMX_ENABLED, CTX_ACTIVE, ctxs, pc, depth,
                   log, last, prev, ncalls>>

(***************************************************************************)
(* Operand encoding (bus.rs / ops.rs).  u64 arithmetic: a left shift drops *)
(* the bits that leave the word.                                           *)
(***************************************************************************)
RECURSIVE BitOr(_, _)
BitOr(a, b) ==
    IF a = 0 THEN b
    ELSE IF b = 0 THEN a
    ELSE (IF a % 2 = 1 \/ b % 2 = 1 THEN 1 ELSE 0) + 2 * BitOr(a \div 2, b \div 2)

\* fmt_offset_ptr with the whole of ptr or'ed in, no mask
fmt_offset_ptr_nomask(SIZE, offset, ptr) ==
    Word(BitOr(BitOr(offset % 256, (SIZE % 4) * 64), ptr.top), ptr.low)

\* fmt_offset_ptr::<SIZE>(offset, ptr):
\*   (offset << 56) | (SIZE << 62) | (ptr & 0x00FF_FFFF_FFFF_FFFF)
fmt_offset_ptr(SIZE, offset, ptr) ==
    Word(BitOr(offset % 256, (SIZE % 4) * 64), ptr.low)

(***************************************************************************)
(* The coprocessor, as a software model driven by the instruction log: a   *)
(* row instruction moves the 64 bytes at its encoded address between host  *)
(* memory and the row named by bits 61..56 of the operand.  The contents   *)
(* of a row are named by the window of host memory they were loaded from.  *)
(***************************************************************************)
HwRow(s, w) == ((w.hi % 64) % NumRows(s))
HwAddr(w) == w.lo

\* the load opcodes of X and Y exchanged
LoadOp_swapped(s) == CASE s = "X" -> 1 [] s = "Y" -> 0 [] s = "Z" -> 4
LoadOp(s) == CASE s = "X" -> 0 [] s = "Y" -> 1 [] s = "Z" -> 4
StoreOp(s) == CASE s = "X" -> 2 [] s = "Y" -> 3 [] s = "Z" -> 5
\* the opcodes of the two plain multiplications exchanged
MulOp_swapped(kind) ==
    CASE kind = "f16" -> 20 [] kind = "i16" -> 21
      [] kind = "add_f16" -> 15 [] kind = "add_i16" -> 14
MulOp(kind) ==
    CASE kind = "f16" -> 21 [] kind = "i16" -> 20
      [] kind = "add_f16" -> 15 [] kind = "add_i16" -> 14
MulKinds == {"f16", "i16", "add_f16", "add_i16"}
MulOps == {MulOp(k) : k \in MulKinds}
\* whether a multiply instruction adds the product to the prior contents of
\* Z: mac16 and fma16 do unless bit 27 of the operand is set (the bit that
\* outer_product_i16_xy_to_z sets for accumulate = false); matint and matfp
\* write the product (doc comments of matrix_mul_i16 and matrix_mul_f16)
AddsToZ(i) ==
    /\ i.op \in {MulOp("add_f16"), MulOp("add_i16")}
    /\ (i.w.lo \div 134217728) % 2 = 0
\* ldzi and stzi: the interleaved row transfers of Z
OpLdzi == 6
OpStzi == 7
\* the instructions that leave hardware-defined contents in Z
OpaqueOps == MulOps \cup {OpLdzi}

\* the largest member of a non-empty set of numbers
Last(S) == CHOOSE i \in S : \A k \in S : k <= i
\* the smallest member of a non-empty set of numbers
First(S) == CHOOSE i \in S : \A k \in S : i <= k

\* 64 bytes of a host buffer, or what a register holds before any load
\* ("zero") or after a matrix instruction ("mat": hardware-defined)
Window(name, len, off) == [name |-> name, len |-> len, off |-> off]

\* the contents of row r of bank s when instruction k of l is about to run
RowAt(l, s, r, k) ==
    LET hits == {i \in 1..(k - 1) :
                    \/ l[i].op = LoadOp(s) /\ HwRow(s, l[i].w) = r
                    \/ s = "Z" /\ l[i].op \in OpaqueOps}
    IN IF hits = {} THEN Window("zero", 0, 0)
       ELSE LET i == l[Last(hits)] IN
            IF i.op \in OpaqueOps THEN Window("mat", 0, 0)
            ELSE Window(i.buf.name, i.buf.len, HwAddr(i.w))

\* the contents of row r of bank s after the instructions of l have run
RowOf(l, s, r) == RowAt(l, s, r, Len(l) + 1)

\* byte k (1..64) of a window: -1 outside the host buffer, -2 hardware-defined
WindowByte(win, k) ==
    CASE win.name = "zero" -> 0
      [] win.name = "mat" -> 0 - 2
      [] OTHER -> IF win.off + k <= win.len
                  THEN PatternByte(win.name, win.off + k - 1)
                  ELSE 0 - 1

\* byte j (from 1) of the result buffer that the store instructions of bank
\* s after position n of l fill: the last store that covers the byte writes
\* it, with the contents the row has when the store runs; a byte no store
\* covers stays uninitialised (-1)
ResultByte(l, s, n, j) ==
    LET hits == {k \in (n + 1)..Len(l) :
                    /\ l[k].op = StoreOp(s)
                    /\ j > HwAddr(l[k].w)
                    /\ j <= HwAddr(l[k].w) + RowBytes}
    IN IF hits = {} THEN 0 - 1
       ELSE LET k == Last(hits) IN
            WindowByte(RowAt(l, s, HwRow(s, l[k].w), k), j - HwAddr(l[k].w))

\* the result buffer of len bytes
BufBytes(l, s, n, len) == [j \in 1..len |-> ResultByte(l, s, n, j)]

(***************************************************************************)
(* Load, store and compute operations: bus.rs (free functions) and ops.rs  *)
(* (the same bodies as methods of AmxHandle).                              *)
(***************************************************************************)
\* the instruction of set_vector(set, reg, ptr)
set_vector_instr(s, reg, ptr) ==
    Instr(LoadOp(s), fmt_offset_ptr(64, reg, ptr),
          [name |-> ptr.buf, len |-> ptr.len])

\* debug_assert!(cond): the check is compiled into debug builds only
debug_assert(cond) == build.debug_assertions => cond

\* the number of rows set_matrix(set, data) hands to set_vector before it
\* returns or panics, for data of len bytes: the debug assertion on the
\* length comes first, then row i takes the sub-slice data[i * 8 .. (i + 1) * 8],
\* which panics when (i + 1) * 8 exceeds the length
set_matrix_rows(s, len) ==
    IF ~debug_assert(len = BankBytes(s)) THEN 0
    ELSE LET bad == {i \in 0..(NumRows(s) - 1) : (i + 1) * SliceStride > len}
         IN IF bad = {} THEN NumRows(s) ELSE First(bad)

\* the instructions of set_matrix(set, data): row i is given the sub-slice
\* data[i * 8 .. (i + 1) * 8], that is a pointer to byte 8 * i of data
set_matrix_instrs(s, p, len) ==
    [i \in 1..set_matrix_rows(s, len) |->
        set_vector_instr(s, i - 1,
            PtrOffset(Ptr(p, len, 0, 0), (i - 1) * SliceStride))]

\* the instruction of get_vector(set, reg): ptr is the local buf
get_vector_instr(s, reg) ==
    Instr(StoreOp(s), fmt_offset_ptr(64, reg, Ptr("buf", RowBytes, 0, 0)),
          [name |-> "buf", len |-> RowBytes])

\* the instructions of get_matrix_512(set) and of get_matrix_4096():
\* row reg is stored at ptr.offset(reg * 64), where ptr is a pointer to the
\* whole array ([u8; 512] or [u8; 4096]), so that the offset counts arrays:
\* reg * 64 * size_of(array) bytes
get_matrix_instrs(s) ==
    [i \in 1..NumRows(s) |->
        Instr(StoreOp(s),
              fmt_offset_ptr(64, i - 1,
                  PtrOffset(Ptr("buf", BankBytes(s), 0, 0),
                            (i - 1) * RowBytes * BankBytes(s))),
              [name |-> "buf", len |-> BankBytes(s)])]

\* a call of thread t returns after emitting the instructions is
Return(t, is, c) ==
    /\ log' = [log EXCEPT ![t] = @ \o is]
    /\ UNCHANGED pc
    /\ Done(t, c)

\* a call of thread t panics after emitting the instructions is
Panic(t, is, c) ==
    /\ log' = [log EXCEPT ![t] = @ \o is]
    /\ pc' = [pc EXCEPT ![t] = "panic"]
    /\ Done(t, [c EXCEPT !.res = "panic"])

\* set_vector: fmt_offset_ptr asserts offset < 64 in debug builds
do_set_vector(t, s, reg, p) ==
    LET c == CallArg(Call("set_vector", s, p, "-", Live(t), Len(log[t])),
                     reg)
    IN IF debug_assert(reg < 64)
       THEN Return(t, <<set_vector_instr(s, reg, Ptr(p, RowBytes, 0, 0))>>, c)
       ELSE Panic(t, <<>>, c)

do_set_matrix(t, s, p, len) ==
    LET c == CallArg(Call("set_matrix", s, p, "-", Live(t), Len(log[t])),
                     len)
    IN IF set_matrix_rows(s, len) = NumRows(s)
       THEN Return(t, set_matrix_instrs(s, p, len), c)
       ELSE Panic(t, set_matrix_instrs(s, p, len), c)

do_get_vector(t, s, reg) ==
    LET is == <<get_vector_instr(s, reg)>>
        c == CallArg(Call("get_vector", s, "-", "-", Live(t), Len(log[t])), reg)
    IN IF debug_assert(reg < 64)
       THEN Return(t, is, c)
       ELSE Panic(t, <<>>, c)

\* get_matrix_512(Z): panics with the feature "debug", and otherwise returns
\* [0; 512] without emitting
do_get_matrix_512(t, s) ==
    IF s = "Z"
    THEN LET c == Call("get_matrix_512", s, "-", "zeroed", Live(t),
                       Len(log[t]))
         IN IF build.feature_debug THEN Panic(t, <<>>, c) ELSE Return(t, <<>>, c)
    ELSE LET is == get_matrix_instrs(s) IN
         Return(t, is, Call("get_matrix_512", s, "-", "-", Live(t), Len(log[t])))

do_get_matrix_4096(t) ==
    LET is == get_matrix_instrs("Z") IN
    Return(t, is, Call("get_matrix_4096", "Z", "-", "-", Live(t), Len(log[t])))

\* a multiplication that goes on to disable the coprocessor
do_matrix_mul_disabling(t, kind) ==
    Return(t, <<Instr(MulOp(kind), Word(0, 0), NoBuf),
                Instr(OpConfig, Word(0, OperandClr), NoBuf)>>,
           Call("matrix_mul", "Z", kind, "-", Live(t), Len(log[t])))
do_matrix_mul(t, kind) ==
    Return(t, <<Instr(MulOp(kind), Word(0, 0), NoBuf)>>,
           Call("matrix_mul", "Z", kind, "-", Live(t), Len(log[t])))

do_clr(t) ==
    Return(t, <<Instr(OpConfig, Word(0, OperandClr), NoBuf)>>,
           Call("clr", "-", "-", "-", Live(t), Len(log[t])))

\* what a load, store or compute operation leaves alone
opVars == <<build, target_ok, asimd, AMX_ENABLED, CTX_ACTIVE, held, ctxs, depth>>

\* bus.rs: free functions, callable with or without a live handle
bus_set_vector(t, s, reg, p) ==
    /\ CanCall(t)
    /\ do_set_vector(t, s, reg, p)
    /\ UNCHANGED opVars

bus_set_matrix(t, s, p, len) ==
    /\ CanCall(t)
    /\ do_set_matrix(t, s, p, len)
    /\ UNCHANGED opVars

bus_get_vector(t, s, reg) ==
    /\ CanCall(t)
    /\ do_get_vector(t, s, reg)
    /\ UNCHANGED opVars

bus_get_matrix_512(t, s) ==
    /\ CanCall(t)
    /\ do_get_matrix_512(t, s)
    /\ UNCHANGED opVars

bus_get_matrix_4096(t) ==
    /\ CanCall(t)
    /\ do_get_matrix_4096(t)
    /\ UNCHANGED opVars

bus_matrix_mul(t, kind) ==
    /\ CanCall(t)
    /\ do_matrix_mul(t, kind)
    /\ UNCHANGED opVars

bus_clr(t) ==
    /\ CanCall(t)
    /\ do_clr(t)
    /\ UNCHANGED opVars

\* ops.rs: methods of AmxHandle, callable on a handle the thread owns
HasHandle(t) == Owned(t) > 0

AmxHandle_set_vector(t, s, reg, p) ==
    /\ CanCall(t)
    /\ HasHandle(t)
    /\ do_set_vector(t, s, reg, p)
    /\ UNCHANGED opVars

AmxHandle_set_matrix(t, s, p, len) ==
    /\ CanCall(t)
    /\ HasHandle(t)
    /\ do_set_matrix(t, s, p, len)
    /\ UNCHANGED opVars

AmxHandle_get_vector(t, s, reg) ==
    /\ CanCall(t)
    /\ HasHandle(t)
    /\ do_get_vector(t, s, reg)
    /\ UNCHANGED opVars

AmxHandle_get_matrix_512(t, s) ==
    /\ CanCall(t)
    /\ HasHandle(t)
    /\ do_get_matrix_512(t, s)
    /\ UNCHANGED opVars

AmxHandle_get_matrix_4096(t) ==
    /\ CanCall(t)
    /\ HasHandle(t)
    /\ do_get_matrix_4096(t)
    /\ UNCHANGED opVars

AmxHandle_matrix_mul(t, kind) ==
    /\ CanCall(t)
    /\ HasHandle(t)
    /\ do_matrix_mul(t, kind)
    /\ UNCHANGED opVars

AmxHandle_clr(t) ==
    /\ CanCall(t)
    /\ HasHandle(t)
    /\ do_clr(t)
    /\ UNCHANGED opVars

(***************************************************************************)
(* Whole-bank transfers, instruction by instruction: set_matrix and the    *)
(* get_matrix functions are for_each loops that emit one row instruction   *)
(* per iteration, and bus.rs offers set_matrix to any code of the thread,  *)
(* with or without the handle.                                             *)
(***************************************************************************)
\* the row instructions of a whole-bank transfer, in order
XferInstrs(c) ==
    IF c.fn = "set_matrix" THEN set_matrix_instrs(c.set, c.data, c.arg)
    ELSE get_matrix_instrs(c.set)

\* the transfer is entered: no row is done yet
xfer_begin(t, c) ==
    /\ CanCall(t)
    /\ HasHandle(t)
    /\ pc' = [pc EXCEPT ![t] = "xfer"]
    /\ depth' = [depth EXCEPT ![t] = 0]
    /\ Done(t, c)
    /\ UNCHANGED <<build, target_ok, asimd, AMX_ENABLED, CTX_ACTIVE, held, ctxs,
                   log>>

AmxHandle_set_matrix_begin(t, s, p) ==
    xfer_begin(t, CallArg(Call("set_matrix", s, p, "-", Live(t), Len(log[t])),
                          BankBytes(s)))

AmxHandle_get_matrix_512_begin(t, s) ==
    /\ s \in {"X", "Y"}
    /\ xfer_begin(t, Call("get_matrix_512", s, "-", "-", Live(t), Len(log[t])))

AmxHandle_get_matrix_4096_begin(t) ==
    xfer_begin(t, Call("get_matrix_4096", "Z", "-", "-", Live(t), Len(log[t])))

\* one iteration of the loop: the instruction of the next row is emitted;
\* after the last row the call returns
xfer_row(t) ==
    /\ pc[t] = "xfer"
    /\ LET is == XferInstrs(last[t]) IN
       /\ log' = [log EXCEPT ![t] = Append(@, is[depth[t] + 1])]
       /\ IF depth[t] + 1 = Len(is)
          THEN /\ pc' = [pc EXCEPT ![t] = "run"]
               /\ depth' = [depth EXCEPT ![t] = 0]
          ELSE /\ depth' = [depth EXCEPT ![t] = @ + 1]
               /\ UNCHANGED pc
    /\ UNCHANGED <<build, target_ok, asimd, AMX_ENABLED, CTX_ACTIVE, held, ctxs,
                   last, prev, ncalls>>

\* code that interrupts the thread between two row instructions (a signal
\* handler, say) calls bus::set_matrix on the thread's coprocessor
Interfere(t, s, p) ==
    /\ pc[t] = "xfer"
    /\ ncalls < MaxCalls
    /\ log' = [log EXCEPT ![t] = @ \o set_matrix_instrs(s, p, BankBytes(s))]
    /\ ncalls' = ncalls + 1
    /\ UNCHANGED <<opVars, pc, last, prev>>

(***************************************************************************)
(* Typed rows (load_store.rs): XRow, YRow and ZRow transfers through the   *)
(* AmxOps methods ldx, ldy, ldz, stx, sty, stz, ldzi and stzi.             *)
(***************************************************************************)
\* every transfer tagged as 64 bytes
MemSize_always64(bytes) == 0
\* MemSize: _64 = 0, _128 = 1
MemSize(bytes) == IF bytes = 128 THEN 1 ELSE 0

\* MemArgs::encode(offset, size): (offset << 56) | ((size as u64) << 62)
encode(offset, size) == Word(BitOr(offset % 256, (size % 4) * 64), 0)

\* fmt_offset::<SIZE>(offset): (offset << 56) | (SIZE << 62)
fmt_offset(SIZE, offset) == Word(BitOr(offset % 256, (SIZE % 4) * 64), 0)

\* an AmxOps load or store method called with the operand x and the pointer
\* ptr: one instruction whose operand is x with the low 56 bits of ptr
AmxOps_ldst(op, x, ptr) ==
    Instr(op, Word(x.hi, ptr.low), [name |-> ptr.buf, len |-> ptr.len])

LoadStoreFns == {"load512", "store512", "load1024_aligned", "store1024_aligned"}
InterleavedFns == {"load512_z_interleaved", "store512_z_interleaved"}

\* the interleaved transfers calling the plain ldz and stz
LoadStoreOp_plain(fn, s) ==
    CASE fn \in {"load512", "load1024_aligned", "load512_z_interleaved"}
            -> LoadOp(s)
      [] fn \in {"store512", "store1024_aligned", "store512_z_interleaved"}
            -> StoreOp(s)
\* the AmxOps method a transfer function calls for a row of bank s
LoadStoreOp(fn, s) ==
    CASE fn \in {"load512", "load1024_aligned"} -> LoadOp(s)
      [] fn \in {"store512", "store1024_aligned"} -> StoreOp(s)
      [] fn = "load512_z_interleaved" -> OpLdzi
      [] fn = "store512_z_interleaved" -> OpStzi

LoadStoreBytes(fn) ==
    IF fn \in {"load1024_aligned", "store1024_aligned"} THEN 128 ELSE 64

\* row.load512(ops, ptr) and the like: a debug assertion on the index of the
\* row, then one AmxOps call with MemArgs { reg_offset: index, size }.encode()
do_load_store(t, fn, s, index, p) ==
    LET c == CallArg(Call(fn, s, p, "-", Live(t), Len(log[t])), index)
        ptr == Ptr(p, LoadStoreBytes(fn), 0, 0)
    IN IF debug_assert(index < NumRows(s))
       THEN Return(t, <<AmxOps_ldst(LoadStoreOp(fn, s),
                                    encode(index, MemSize(LoadStoreBytes(fn))),
                                    ptr)>>, c)
       ELSE Panic(t, <<>>, c)

LoadStore_transfer(t, fn, s, index, p) ==
    /\ CanCall(t)
    /\ fn \in LoadStoreFns \/ (fn \in InterleavedFns /\ s = "Z")
    /\ do_load_store(t, fn, s, index, p)
    /\ UNCHANGED opVars

\* the instructions of read_x, read_y and read_z: store512 of row i at
\* (ret as *mut u8).offset(i * 64), for i in 0..8 or 0..64
read_instrs(s) ==
    [i \in 1..NumRows(s) |->
        AmxOps_ldst(StoreOp(s), encode(i - 1, MemSize(RowBytes)),
                    PtrOffset(Ptr("buf", BankBytes(s), 0, 0),
                              (i - 1) * RowBytes))]

\* Amx::read_x / read_y / read_z
Amx_read(t, s) ==
    /\ CanCall(t)
    /\ Return(t, read_instrs(s),
              Call("read", s, "-", "-", Live(t), Len(log[t])))
    /\ UNCHANGED opVars

(***************************************************************************)
(* The operand encoders applied on their own: fmt_offset, fmt_offset_ptr   *)
(* (bus.rs, ops.rs) and MemArgs::encode (load_store.rs).  SIZE is the      *)
(* const argument as the callers write it: the bytes of the transfer.      *)
(***************************************************************************)
\* an encoder application: its inputs and the word it returns
EncArgs(bytes, ptr, word) == [bytes |-> bytes, ptr |-> ptr, word |-> word]

\* encoder applications made in one run
MaxEncCalls == 1

\* a pure function of thread t is applied: its result is recorded
Apply(t, c, ok) ==
    /\ pc[t] = "run"
    /\ ncalls < MaxEncCalls
    /\ last' = [last EXCEPT ![t] = [c EXCEPT !.res = IF ok THEN "-" ELSE "panic"]]
    /\ pc' = [pc EXCEPT ![t] = IF ok THEN @ ELSE "panic"]
    /\ ncalls' = ncalls + 1
    /\ UNCHANGED <<opVars, log, prev>>

Enc_fmt_offset(t, SIZE, offset) ==
    Apply(t, CallArg(Call("fmt_offset", "-",
                          EncArgs(SIZE, Ptr("-", 0, 0, 0), fmt_offset(SIZE, offset)),
                          "-", Live(t), Len(log[t])),
                     offset),
          debug_assert(offset < 64))

Enc_fmt_offset_ptr(t, SIZE, offset, ptr) ==
    Apply(t, CallArg(Call("fmt_offset_ptr", "-",
                          EncArgs(SIZE, ptr, fmt_offset_ptr(SIZE, offset, ptr)),
                          "-", Live(t), Len(log[t])),
                     offset),
          debug_assert(offset < 64))

Enc_encode(t, bytes, offset) ==
    Apply(t, CallArg(Call("encode", "-",
                          EncArgs(bytes, Ptr("-", 0, 0, 0),
                                  encode(offset, MemSize(bytes))),
                          "-", Live(t), Len(log[t])),
                     offset),
          debug_assert(offset < 64))

(***************************************************************************)
(* The machine word of an instruction (bus.rs, ops.rs).  emit_op hands op  *)
(* and operand to the asm! template as in(reg) operands: the template      *)
(* receives the names of the registers the compiler allocated, not the     *)
(* values.  op_imm hands both as constants.                                *)
(***************************************************************************)
\* 0x00201000
AmxBase == 2101248
\* the general registers the compiler can allocate: x0 .. x30
GeneralRegs == 0..30
\* the text 0{operand} for an operand held in register x<r> is "0x<r>": the
\* decimal digits of r read as a hexadecimal number
HexOfReg(r) == 16 * (r \div 10) + (r % 10)
\* (0{operand} & 0xf) + (0{operand} >> 4) * 10
RegField(h) == (h % 16) + (h \div 16) * 10

\* emit_op: .word 0x00201000 + ({op} << 5) + (0{operand} & 0xf)
\*                + (0{operand} >> 4) * 10
\* opv is what the assembler takes {op}, a register name, to stand for, and
\* r is the number of the register that holds operand
emit_op_word(opv, r) == AmxBase + opv * 32 + RegField(HexOfReg(r))

\* op_imm::<OP, OPERAND>(): .word 0x00201000 + ({op} << 5) + {operand}
op_imm(OP, OPERAND) == AmxBase + OP * 32 + OPERAND

\* set() and clr() as instruction words: both call emit_op(17, operand), so
\* the compiler picks the register of op and the register of operand
bus_config(t, operand, opv, r) ==
    /\ CanCall(t)
    /\ Return(t, <<Instr(OpConfig, Word(0, operand), NoBuf)>>,
              CallArg(Call(IF operand = OperandSet THEN "set" ELSE "clr", "-",
                           [opv |-> opv, r |-> r], "-", Live(t), Len(log[t])),
                      emit_op_word(opv, r)))
    /\ UNCHANGED opVars

\* a call emit_op(op, 0): the compiler keeps the operand in register x<r>,
\* and the assembler takes {op}, the name of another register, for opv
emit_op_call(t, op, opv, r) ==
    /\ CanCall(t)
    /\ Return(t, <<Instr(op, Word(0, 0), NoBuf)>>,
              CallArg(Call("emit_op", "-", [op |-> op, opv |-> opv, r |-> r],
                           "-", Live(t), Len(log[t])),
                      emit_op_word(opv, r)))
    /\ UNCHANGED opVars

(***************************************************************************)
(* Amx::outer_product_i16_xy_to_z (mod.rs).                                *)
(***************************************************************************)
\* Option<XBits> / Option<YBits>: None, or Some(v)
None == [some |-> FALSE, v |-> 0]
Some(v) == [some |-> TRUE, v |-> v]
unwrap_or_default(o) == IF o.some THEN o.v ELSE 0
Bit(b) == IF b THEN 1 ELSE 0

\* the operand with the x offset shifted by 8 instead of 10
outer_product_operand_shift8(x, y, z_index, accumulate) ==
    BitOr(unwrap_or_default(y),
    BitOr(unwrap_or_default(x) * 256,
    BitOr(z_index * 1048576,
    BitOr(Bit(~accumulate) * 134217728,
    BitOr(Bit(~x.some) * 268435456,
          Bit(~y.some) * 536870912)))))
\* the operand outer_product_i16_xy_to_z hands to mac16
outer_product_operand(x, y, z_index, accumulate) ==
    BitOr(unwrap_or_default(y),
    BitOr(unwrap_or_default(x) * 1024,
    BitOr(z_index * 1048576,
    BitOr(Bit(~accumulate) * 134217728,
    BitOr(Bit(~x.some) * 268435456,
          Bit(~y.some) * 536870912)))))

\* mac16 of the opcode table
OpMac16 == 14
\* an AmxOps compute method called with the operand x: one instruction
AmxOps_compute(op, x) == Instr(op, Word(0, x), NoBuf)

\* the three debug assertions, then self.mac16(operand)
Amx_outer_product_i16_xy_to_z(t, x, y, z_index, accumulate) ==
    LET c == CallArg(Call("outer_product", "Z",
                          [x |-> x, y |-> y, accumulate |-> accumulate], "-",
                          Live(t), Len(log[t])), z_index)
    IN /\ CanCall(t)
       /\ IF /\ debug_assert(unwrap_or_default(x) < 512)
             /\ debug_assert(unwrap_or_default(y) < 512)
             /\ debug_assert(z_index < 64)
          THEN Return(t, <<AmxOps_compute(OpMac16,
                              outer_product_operand(x, y, z_index, accumulate))>>,
                      c)
          ELSE Panic(t, <<>>, c)
       /\ UNCHANGED opVars

(***************************************************************************)
(* Specifications.                                                         *)
(***************************************************************************)
\* the rows and the buffer contents the calls are tried with
RowInputs(s) == {NumRows(s) - 1}
LifePatterns == {"aa"}

\* Spec: one thread drives the lifecycle and every operation
Next ==
    \/ AmxHandle_enable("t1")
    \/ AmxCtx_new("t1")
    \/ AmxHandle_drop("t1", "t1")
    \/ AmxHandle_disable("t1")
    \/ StackOverflow("t1")
    \/ AmxCtx_drop("t1")
    \/ \E s \in RegSet, p \in LifePatterns :
          \E reg \in RowInputs(s) : bus_set_vector("t1", s, reg, p)
    \/ \E s \in RegSet, p \in LifePatterns :
          bus_set_matrix("t1", s, p, BankBytes(s))
    \/ \E s \in RegSet : \E reg \in RowInputs(s) : bus_get_vector("t1", s, reg)
    \/ \E s \in RegSet : bus_get_matrix_512("t1", s)
    \/ bus_get_matrix_4096("t1")
    \/ \E k \in MulKinds : bus_matrix_mul("t1", k)
    \/ bus_clr("t1")
    \/ \E s \in RegSet, p \in LifePatterns :
          \E reg \in RowInputs(s) : AmxHandle_set_vector("t1", s, reg, p)
    \/ \E s \in RegSet, p \in LifePatterns :
          AmxHandle_set_matrix("t1", s, p, BankBytes(s))
    \/ \E s \in RegSet :
          \E reg \in RowInputs(s) : AmxHandle_get_vector("t1", s, reg)
    \/ \E s \in RegSet : AmxHandle_get_matrix_512("t1", s)
    \/ AmxHandle_get_matrix_4096("t1")
    \/ \E k \in MulKinds : AmxHandle_matrix_mul("t1", k)
    \/ AmxHandle_clr("t1")

Spec == Init /\ [][Next]_vars

\* SpecMT: two threads, each with its own flags, log and coprocessor state
NextMT ==
    \/ \E t \in Threads : AmxHandle_enable(t)
    \/ \E t \in Threads : AmxCtx_new(t)
    \/ \E t, c \in Threads : AmxHandle_drop(t, c)
    \/ \E t \in Threads : AmxHandle_disable(t)
    \/ \E t \in Threads : StackOverflow(t)
    \/ \E t \in Threads : AmxCtx_drop(t)
    \/ \E t, u, c \in Threads : AmxHandle_send(t, u, c)
    \/ \E t \in Threads : AmxHandle_matrix_mul(t, "f16")
    \/ \E t \in Threads : AmxHandle_get_vector(t, "X", 0)

SpecMT == Init /\ [][NextMT]_vars

\* SpecBank: one thread moves whole banks and single rows of either pattern
NextBank ==
    \/ AmxHandle_enable("t1")
    \/ \E s \in RegSet, p \in PatternNames :
          \E reg \in RowInputs(s) : AmxHandle_set_vector("t1", s, reg, p)
    \/ \E s \in RegSet, p \in PatternNames :
          AmxHandle_set_matrix("t1", s, p, BankBytes(s))
    \/ \E s \in RegSet, p \in PatternNames :
          bus_set_matrix("t1", s, p, BankBytes(s))
    \/ \E s \in RegSet : AmxHandle_get_matrix_512("t1", s)
    \/ \E s \in RegSet : bus_get_matrix_512("t1", s)
    \/ AmxHandle_get_matrix_4096("t1")
    \/ bus_get_matrix_4096("t1")
    \/ \E s \in RegSet : Amx_read("t1", s)
    \/ \E k \in MulKinds : AmxHandle_matrix_mul("t1", k)

SpecBank == Init /\ [][NextBank]_vars

\* SpecTorn: one thread owns the handle and moves whole banks row by row,
\* and other code of the thread may write a bank in between
NextTorn ==
    \/ AmxHandle_enable("t1")
    \/ \E s \in RegSet, p \in LifePatterns : AmxHandle_set_matrix_begin("t1", s, p)
    \/ \E s \in RegSet : AmxHandle_get_matrix_512_begin("t1", s)
    \/ AmxHandle_get_matrix_4096_begin("t1")
    \/ xfer_row("t1")
    \/ \E s \in RegSet, p \in PatternNames : Interfere("t1", s, p)

SpecTorn == Init /\ [][NextTorn]_vars

\* SpecArgs: one thread, any build, calls with arguments inside and outside
\* their contract
MaxArgCalls == 2
RegInputs(s) == {NumRows(s) - 1, NumRows(s), 64}
LenInputs(s) == {BankBytes(s), 500, 40, BankBytes(s) + 8}
ArgCall(t) == ncalls < MaxArgCalls

NextArgs ==
    \/ \E s \in RegSet : \E reg \in RegInputs(s) :
          ArgCall("t1") /\ bus_set_vector("t1", s, reg, "aa")
    \/ \E s \in RegSet : \E len \in LenInputs(s) :
          ArgCall("t1") /\ bus_set_matrix("t1", s, "aa", len)
    \/ \E s \in RegSet : \E reg \in RegInputs(s) :
          ArgCall("t1") /\ bus_get_vector("t1", s, reg)
    \/ \E s \in RegSet : ArgCall("t1") /\ bus_get_matrix_512("t1", s)
    \/ \E fn \in LoadStoreFns \cup InterleavedFns, s \in RegSet :
          \E index \in RegInputs(s) :
             ArgCall("t1") /\ LoadStore_transfer("t1", fn, s, index, "aa")

SpecArgs == InitBuilds /\ [][NextArgs]_vars

\* SpecRows: one thread, any build: the single-row transfers of bus.rs and of
\* load_store.rs with the first and the last row of each bank and the first
\* index past it
RowIndexInputs(s) == {0, NumRows(s) - 1, NumRows(s)}

NextRows ==
    \/ \E s \in RegSet : \E reg \in RowIndexInputs(s) :
          ArgCall("t1") /\ bus_set_vector("t1", s, reg, "aa")
    \/ \E s \in RegSet : \E reg \in RowIndexInputs(s) :
          ArgCall("t1") /\ bus_get_vector("t1", s, reg)
    \/ \E fn \in LoadStoreFns \cup InterleavedFns, s \in RegSet :
          \E index \in RowIndexInputs(s) :
             ArgCall("t1") /\ LoadStore_transfer("t1", fn, s, index, "aa")

SpecRows == InitEnc /\ [][NextRows]_vars

\* SpecEmit: one thread, any build: the configuration instructions with
\* every register allocation, and outer products with offsets at both ends
\* of their range and rows inside and outside the bank
BitsInputs == {None, Some(0), Some(511)}
ZRowInputs == {0, 63, 64, 128, 191}
\* what {op} contributes to the word: the opcode, or another field value
OpFieldInputs == {OpConfig, 31}

NextEmit ==
    \/ \E operand \in {OperandSet, OperandClr}, opv \in OpFieldInputs,
          r \in GeneralRegs :
          ArgCall("t1") /\ bus_config("t1", operand, opv, r)
    \/ \E x, y \in BitsInputs, z \in ZRowInputs, acc \in BOOLEAN :
          ArgCall("t1") /\ Amx_outer_product_i16_xy_to_z("t1", x, y, z, acc)

SpecEmit == InitEnc /\ [][NextEmit]_vars

\* SpecFrame: one thread enables the coprocessor and runs every load, store
\* and compute operation with arguments inside their ranges, in any build
NextFrame ==
    \/ AmxHandle_enable("t1")
    \/ \E s \in RegSet : \E reg \in RowInputs(s) :
          AmxHandle_set_vector("t1", s, reg, "aa")
    \/ \E s \in RegSet : AmxHandle_set_matrix("t1", s, "aa", BankBytes(s))
    \/ \E s \in RegSet : \E reg \in RowInputs(s) :
          AmxHandle_get_vector("t1", s, reg)
    \/ \E s \in {"X", "Y"} : AmxHandle_get_matrix_512("t1", s)
    \/ AmxHandle_get_matrix_4096("t1")
    \/ \E k \in MulKinds : AmxHandle_matrix_mul("t1", k)
    \/ \E x \in {None, Some(511)}, acc \in BOOLEAN :
          HasHandle("t1") /\ Amx_outer_product_i16_xy_to_z("t1", x, Some(0), 63, acc)
    \/ \E fn \in LoadStoreFns \cup InterleavedFns, s \in RegSet :
          /\ HasHandle("t1")
          /\ LoadStore_transfer("t1", fn, s, NumRows(s) - 1, "aa")
    \/ \E s \in RegSet : HasHandle("t1") /\ Amx_read("t1", s)

SpecFrame == InitBuilds /\ [][NextFrame]_vars

\* SpecWord: one emit_op call in any build, with every opcode, every
\* register for the operand and every value of the opcode field
Opcodes == 0..31

NextWord ==
    /\ ncalls < MaxEncCalls
    /\ \E op \in Opcodes, opv \in Opcodes, r \in GeneralRegs :
          emit_op_call("t1", op, opv, r)

SpecWord == InitEnc /\ [][NextWord]_vars

\* SpecOuter: one outer product in any build, with offsets absent, at both
\* ends of their range and with alternating bits, and rows at both ends of
\* the bank and past it
OuterBitsInputs == {None, Some(0), Some(341), Some(511)}
OuterRowInputs == {0, 21, 63, 64}

NextOuter ==
    /\ ncalls < MaxEncCalls
    /\ \E x, y \in OuterBitsInputs, z \in OuterRowInputs, acc \in BOOLEAN :
          Amx_outer_product_i16_xy_to_z("t1", x, y, z, acc)

SpecOuter == InitEnc /\ [][NextOuter]_vars

\* SpecEnc: the encoders applied to every offset, to the sizes the callers
\* pass (64, 128) and to a size tag passed as it is (1), and to addresses
\* with bits set at either end of bits 55..0 and in bits 63..56
OffsetInputs == 0..65
SizeInputs == {64, 128, 1}
PtrInputs == {Ptr("aa", 64, 0, 4095), Ptr("aa", 64, 128, 0),
              Ptr("aa", 64, 255, 2147483647)}

NextEnc ==
    \/ \E SIZE \in SizeInputs, offset \in OffsetInputs :
          Enc_fmt_offset("t1", SIZE, offset)
    \/ \E SIZE \in SizeInputs, offset \in OffsetInputs, ptr \in PtrInputs :
          Enc_fmt_offset_ptr("t1", SIZE, offset, ptr)
    \/ \E bytes \in {64, 128}, offset \in OffsetInputs :
          Enc_encode("t1", bytes, offset)

SpecEnc == InitEnc /\ [][NextEnc]_vars

(***************************************************************************)
(* Properties of the instruction log.                                      *)
(***************************************************************************)
\* the configuration instructions of l before position i
ConfigBefore(l, i) == {k \in 1..(i - 1) : IsConfig(l[k])}
\* the coprocessor is enabled when instruction i of l is emitted
EnabledAt(l, i) ==
    /\ ConfigBefore(l, i) # {}
    /\ IsEnable(l[Last(ConfigBefore(l, i))])
\* enable and disable alternate in l, starting with enable
Alternates(l) ==
    \A i \in 1..Len(l) :
        IsConfig(l[i]) =>
            /\ IsEnable(l[i]) \/ IsDisable(l[i])
            /\ IsEnable(l[i]) <=> ~EnabledAt(l, i)
\* the disable instructions of l after position n
DisablesAfter(l, n) == {k \in (n + 1)..Len(l) : IsDisable(l[k])}

IsEnableCall(c) == c.fn \in {"enable", "new"}
IsReleaseCall(c) == c.fn \in {"drop", "ctxdrop"}

(***************************************************************************)
(* C1: while a handle that enable() returned is live in a thread, a        *)
(* further enable() (AmxHandle::enable, AmxCtx::new) in that thread        *)
(* returns Exists and no second handle.                                    *)
(***************************************************************************)
C1_SecondEnableRejected ==
    \A t \in Threads :
        (IsEnableCall(last[t]) /\ last[t].live > 0) => last[t].res = "Exists"

(***************************************************************************)
(* C2: every thread has at most one live handle, and its enabled flag      *)
(* (AMX_ENABLED, CTX_ACTIVE) is true exactly when a live handle exists.    *)
(***************************************************************************)
C2_FlagAgreesWithHandle ==
    \A t \in Threads :
        /\ Owned(t) <= 1
        /\ ctxs[t] <= 1
        /\ AMX_ENABLED[t] <=> (Owned(t) > 0)
        /\ CTX_ACTIVE[t] <=> (ctxs[t] > 0)

(***************************************************************************)
(* C3: every load, store or compute instruction of a thread's log is       *)
(* preceded by an enable instruction of that thread with no disable        *)
(* instruction in between.                                                 *)
(***************************************************************************)
C3_NoInstructionWhileDisabled ==
    \A t \in Threads :
        \A i \in 1..Len(log[t]) :
            ~IsConfig(log[t][i]) => EnabledAt(log[t], i)

(***************************************************************************)
(* C4: in each thread's log enable and disable instructions strictly       *)
(* alternate, starting with enable, and no disable is emitted while the    *)
(* handle stays live: as long as a thread owns a live handle, the last     *)
(* configuration instruction of its log is an enable.                      *)
(***************************************************************************)
C4_EnableDisableAlternate ==
    \A t \in Threads :
        /\ Alternates(log[t])
        /\ Live(t) > 0 => EnabledAt(log[t], Len(log[t]) + 1)

(***************************************************************************)
(* C5: releasing a live handle emits the disable instruction exactly once  *)
(* and returns: the release never runs a second time on the same handle,   *)
(* and when it is over the thread is back at the top level with its flag   *)
(* false.                                                                  *)
(***************************************************************************)
C5_ReleaseOnce ==
    \A t \in Threads :
        IsReleaseCall(last[t]) =>
            /\ Cardinality(DisablesAfter(log[t], last[t].at)) <= 1
            /\ pc[t] = "run" =>
                  /\ Cardinality(DisablesAfter(log[t], last[t].at)) = 1
                  /\ ~AMX_ENABLED[t] \/ last[t].fn # "drop"
                  /\ ~CTX_ACTIVE[t] \/ last[t].fn # "ctxdrop"

(***************************************************************************)
(* C6: on a supported target, once a release is over the thread can call   *)
(* enable() again and the call succeeds.                                   *)
(***************************************************************************)
C6_EnableAfterRelease ==
    \A t \in Threads :
        (Supported /\ IsReleaseCall(last[t]) /\ pc[t] # "drop") =>
            /\ pc[t] = "run"
            /\ last[t].fn = "drop" =>
                  enable_outcome(target_ok, asimd, AMX_ENABLED[t]) = "Ok"
            /\ last[t].fn = "ctxdrop" =>
                  new_outcome(target_ok, asimd, CTX_ACTIVE[t]) = "Ok"

(***************************************************************************)
(* C7: on an unsupported target enable() returns Unsupported, creates no   *)
(* handle, leaves the flag false and emits no instruction: no thread owns  *)
(* a handle, no flag is set, no log holds an enable instruction, and the   *)
(* log is as long after an enable() call as it was before it.              *)
(***************************************************************************)
C7_UnsupportedEmitsNothing ==
    ~Supported =>
        \A t \in Threads :
            /\ Live(t) = 0
            /\ ~AMX_ENABLED[t] /\ ~CTX_ACTIVE[t]
            /\ \A i \in 1..Len(log[t]) : ~IsEnable(log[t][i])
            /\ IsEnableCall(last[t]) =>
                  /\ last[t].res = "Unsupported"
                  /\ Len(log[t]) = last[t].at

\* both constructors were called on an unsupported target, nothing else
C7_Witness ==
    /\ ~Supported
    /\ last["t1"].fn = "enable" /\ last["t1"].res = "Unsupported"
    /\ prev["t1"].fn = "new" /\ prev["t1"].res = "Unsupported"
    /\ log["t1"] = <<>>

C9_HandleStaysInThread ==
    \A t \in Threads :
        /\ \A c \in Threads : held[t][c] > 0 => c = t
        /\ last[t].fn = "drop" => last[t].data = t

(***************************************************************************)
(* C10: set_matrix of a buffer of the bank's size followed immediately by  *)
(* the whole-bank read of the same bank (get_matrix_512 for X and Y,       *)
(* get_matrix_4096 for Z) returns a buffer byte-identical to the one       *)
(* written, when the coprocessor is enabled as the write begins.           *)
(***************************************************************************)
ReadsBank(c, s) ==
    \/ c.fn = "get_matrix_512" /\ c.set = s /\ s \in {"X", "Y"}
    \/ c.fn = "get_matrix_4096" /\ c.set = s /\ s = "Z"

C10_WriteReadRoundTrip ==
    \A t \in Threads : \A s \in RegSet :
        (/\ prev[t].fn = "set_matrix" /\ prev[t].set = s
         /\ EnabledAt(log[t], prev[t].at + 1)
         /\ ReadsBank(last[t], s)) =>
            BufBytes(log[t], s, last[t].at, BankBytes(s))
                = Data(prev[t].data, BankBytes(s))

(***************************************************************************)
(* C11: set_matrix on a buffer of the bank's size emits one load per row,  *)
(* in ascending row order (8 for X and Y, 64 for Z), and the load of row i *)
(* is given the address of byte 64 * i of the buffer, so that the rows     *)
(* cover the bytes [64 * i, 64 * i + 64) of the buffer, each byte once.    *)
(***************************************************************************)
\* the instructions thread t emitted in its last call
Emitted(t) == SubSeq(log[t], last[t].at + 1, Len(log[t]))

C11_WriteBankRowByRow ==
    \A t \in Threads :
        (last[t].fn = "set_matrix" /\ last[t].arg = BankBytes(last[t].set)) =>
            LET s == last[t].set
                is == Emitted(t)
            IN /\ Len(is) = (IF s = "Z" THEN 64 ELSE 8)
               /\ \A i \in 1..Len(is) :
                     /\ is[i].op = (CASE s = "X" -> 0 [] s = "Y" -> 1 [] s = "Z" -> 4)
                     /\ is[i].w.hi % 64 = i - 1
                     /\ is[i].buf.name = last[t].data
                     /\ is[i].w.lo = 64 * (i - 1)

(***************************************************************************)
(* C12: set_matrix rejects every buffer whose length is not 512 for X or   *)
(* Y, or 4096 for Z: the call panics, and it has emitted no load           *)
(* instruction, so the registers are as they were.                         *)
(***************************************************************************)
C12_WrongLengthRejected ==
    \A t \in Threads :
        (/\ last[t].fn = "set_matrix"
         /\ last[t].arg # (IF last[t].set = "Z" THEN 4096 ELSE 512)) =>
            /\ last[t].res = "panic"
            /\ Len(log[t]) = last[t].at

(***************************************************************************)
(* C13: a single-row load or store called with a row index outside its     *)
(* bank (index >= 8 for X and Y, >= 64 for Z) panics before it emits an    *)
(* instruction, so the offset field (bits 61..56) of every emitted operand *)
(* is below 8 for the opcodes of X and Y and below 64 for those of Z.      *)
(***************************************************************************)
SingleRowFns == {"set_vector", "get_vector"} \cup LoadStoreFns \cup InterleavedFns

C13_IndexInBound ==
    \A t \in Threads :
        /\ (/\ last[t].fn \in SingleRowFns
            /\ last[t].arg >= (IF last[t].set = "Z" THEN 64 ELSE 8)) =>
               /\ last[t].res = "panic"
               /\ Len(log[t]) = last[t].at
        /\ \A i \in 1..Len(log[t]) :
               /\ log[t][i].op \in {0, 1, 2, 3} => log[t][i].w.hi % 64 < 8
               /\ log[t][i].op \in {4, 5, 6, 7} => log[t][i].w.hi % 64 < 64

(***************************************************************************)
(* C14: for every offset in 0..63 and either transfer size (64 bytes: tag  *)
(* 0, 128 bytes: tag 1), the word of fmt_offset, of fmt_offset_ptr and of  *)
(* MemArgs::encode has the offset in bits 61..56 and the size tag in bits  *)
(* 63..62, so the word decodes to the offset and the tag it was made from  *)
(* and the words of the two sizes differ.                                  *)
(***************************************************************************)
EncoderFns == {"fmt_offset", "fmt_offset_ptr", "encode"}

C14_OffsetAndTagRoundTrip ==
    \A t \in Threads :
        (/\ last[t].fn \in EncoderFns
         /\ last[t].arg \in 0..63
         /\ last[t].data.bytes \in {64, 128}) =>
            /\ last[t].res = "-"
            /\ last[t].data.word.hi % 64 = last[t].arg
            /\ last[t].data.word.hi \div 64 = (IF last[t].data.bytes = 128 THEN 1 ELSE 0)

(***************************************************************************)
(* C15: for every offset in 0..63, every size and every address, the word  *)
(* of fmt_offset_ptr is the word of fmt_offset with bits 55..0 replaced by *)
(* the low 56 bits of the address: bits 63..56 of the address change       *)
(* neither the offset nor the size tag.                                    *)
(***************************************************************************)
C15_AddressInLow56Bits ==
    \A t \in Threads :
        (last[t].fn = "fmt_offset_ptr" /\ last[t].arg \in 0..63) =>
            /\ last[t].res = "-"
            /\ last[t].data.word.lo = last[t].data.ptr.low
            /\ last[t].data.word.hi = fmt_offset(last[t].data.bytes, last[t].arg).hi
            /\ last[t].data.word.hi % 64 = last[t].arg

\* the last row with the 128-byte size tag and an address whose bits 63..56
\* and 30..0 are all set
C15_Witness ==
    /\ last["t1"].fn = "fmt_offset_ptr"
    /\ last["t1"].arg = 63
    /\ last["t1"].data.bytes = 1
    /\ last["t1"].data.ptr.top = 255
    /\ last["t1"].data.ptr.low = 2147483647
    /\ last["t1"].data.word = Word(127, 2147483647)

(***************************************************************************)
(* C16: the enable and the disable instruction are emitted with immediate  *)
(* operands: the instruction word is 0x00201000 + (17 << 5) + 0 for enable *)
(* and 0x00201000 + (17 << 5) + 1 for disable, whichever registers the     *)
(* compiler allocates.                                                     *)
(***************************************************************************)
C16_ConfigWordIsConstant ==
    \A t \in Threads :
        /\ last[t].fn = "set" => last[t].arg = 2101248 + 17 * 32 + 0
        /\ last[t].fn = "clr" => last[t].arg = 2101248 + 17 * 32 + 1

(***************************************************************************)
(* C17: outer_product_i16_xy_to_z masks z_index instead of rejecting it:   *)
(* for every z_index, also 64 and above, the call emits one instruction    *)
(* whose bits 25..20 are z_index mod 64, whose bit 27 is NOT accumulate,   *)
(* whose bit 28 says that x is None and whose bit 29 that y is None.       *)
(***************************************************************************)
C17_ZRowMasked ==
    \A t \in Threads :
        last[t].fn = "outer_product" =>
            /\ last[t].res = "-"
            /\ Len(log[t]) = last[t].at + 1
            /\ LET w == log[t][Len(log[t])].w.lo IN
               /\ (w \div 1048576) % 64 = last[t].arg % 64
               /\ (w \div 134217728) % 2 = (IF last[t].data.accumulate THEN 0 ELSE 1)
               /\ (w \div 268435456) % 2 = (IF last[t].data.x.some THEN 0 ELSE 1)
               /\ (w \div 536870912) % 2 = (IF last[t].data.y.some THEN 0 ELSE 1)

(***************************************************************************)
(* C18: get_matrix_512 called with the large bank Z aborts: it panics,     *)
(* returns no buffer to the caller (not a zero-filled one either) and      *)
(* emits no instruction.                                                   *)
(***************************************************************************)
C18_WrongBankAborts ==
    \A t \in Threads :
        (last[t].fn = "get_matrix_512" /\ last[t].set = "Z") =>
            /\ last[t].res = "panic"
            /\ pc[t] = "panic"
            /\ Len(log[t]) = last[t].at

\* the positions in the log of the instructions emitted since the last call
\* was entered
Segment(t) == (last[t].at + 1)..Len(log[t])

\* the positions of the store instructions of the whole-bank read of t
ReadStores(t) ==
    {k \in Segment(t) : log[t][k].op = StoreOp(last[t].set)}

\* the positions of the loads of bank s that other code ran during the call
ForeignLoads(t, s) ==
    {k \in Segment(t) : log[t][k].op = LoadOp(s)}

WholeBankReads == {"get_matrix_512", "get_matrix_4096"}

\* C19: whole-bank read and write are sequences of separate row
\* instructions: while one runs, the rows done so far are fewer than the
\* rows of the bank and other code can write the bank; a write that other
\* code makes to a row before the read stores that row is what the returned
\* buffer holds for that row (bytes 64*r .. 64*r+63); and when only the
\* owner acts every row the read stores has the contents that the bank had
\* when the read began.
C19_WholeBankNotAtomic ==
    \A t \in Threads :
        LET s == last[t].set
            l == log[t]
        IN
        /\ pc[t] = "xfer" =>
              /\ depth[t] < NumRows(s)
              /\ last[t].fn \in WholeBankReads =>
                    Cardinality(ReadStores(t)) = depth[t]
        /\ (pc[t] = "run" /\ last[t].fn \in WholeBankReads) =>
              /\ Cardinality(ReadStores(t)) = NumRows(s)
              /\ Len(l) = last[t].at + NumRows(s) =>
                    \A k \in ReadStores(t) :
                        RowAt(l, s, HwRow(s, l[k].w), k)
                            = RowAt(l, s, HwRow(s, l[k].w), last[t].at + 1)
              /\ \A k \in ReadStores(t) :
                    LET r == HwRow(s, l[k].w)
                        early == {f \in ForeignLoads(t, s) :
                                     f < k /\ HwRow(s, l[f].w) = r}
                    IN early # {} =>
                          \A j \in 1..RowBytes :
                              ResultByte(l, s, last[t].at, r * RowBytes + j)
                                  = WindowByte(RowAt(l, s, r, k), j)
        /\ (pc[t] = "run" /\ last[t].fn = "set_matrix"
               /\ Len(l) = last[t].at + NumRows(s)) =>
              \A k \in Segment(t) :
                  /\ l[k].op = LoadOp(s)
                  /\ HwRow(s, l[k].w) = k - last[t].at - 1

C21_InterleavedTransfers ==
    \A t \in Threads :
        last[t].fn \in InterleavedFns =>
            /\ last[t].set = "Z"
            /\ last[t].arg < LargeRows =>
                  /\ pc[t] = "run"
                  /\ Len(log[t]) = last[t].at + 1
                  /\ LET i == log[t][Len(log[t])] IN
                     /\ last[t].fn = "load512_z_interleaved" => i.op = 6
                     /\ last[t].fn = "store512_z_interleaved" => i.op = 7
                     /\ i.op \notin {LoadOp("Z"), StoreOp("Z")}
                     /\ i.w.hi \div 64 = 0
                     /\ i.w.hi % 64 = last[t].arg

\* an interleaved store of row 63 followed by an interleaved load of it
C21_Witness ==
    /\ prev["t1"].fn = "store512_z_interleaved" /\ prev["t1"].arg = 63
    /\ last["t1"].fn = "load512_z_interleaved" /\ last["t1"].arg = 63
    /\ Len(log["t1"]) = 2
    /\ log["t1"][1].op = OpStzi
    /\ log["t1"][2].op = OpLdzi

\* C22: a whole-bank read that returns the bank has emitted one store
\* instruction per row, in ascending row order (8 or 64), and the
\* instruction of row i carries the address of byte 64*i of the result
\* buffer: the 64-byte windows are disjoint, inside the buffer and cover it.
C22_ReadBankRowByRow ==
    \A t \in Threads :
        LET s == last[t].set
            n == last[t].at
        IN (/\ last[t].fn \in WholeBankReads \cup {"read"}
            /\ ~(last[t].fn = "get_matrix_512" /\ s = "Z")) =>
              /\ pc[t] = "run"
              /\ Len(log[t]) = n + NumRows(s)
              /\ NumRows(s) * RowBytes = BankBytes(s)
              /\ \A i \in 1..NumRows(s) :
                    LET ins == log[t][n + i] IN
                    /\ ins.op = StoreOp(s)
                    /\ HwRow(s, ins.w) = i - 1
                    /\ HwAddr(ins.w) = 64 * (i - 1)
                    /\ HwAddr(ins.w) + RowBytes <= ins.buf.len

\* the (bank, direction) pairs of the single-row transfers and their opcodes
RowOpcodes == {LoadOp(s) : s \in RegSet} \cup {StoreOp(s) : s \in RegSet}

\* C23: set_vector and get_vector of a row (0..63) return after exactly one
\* instruction; its opcode is 0, 1, 4 for writing a row of X, Y, Z and 2, 3,
\* 5 for reading one; the six opcodes are pairwise distinct; and the offset
\* field of the operand is the given row.
C23_RowOpcodeTable ==
    /\ Cardinality(RowOpcodes) = 6
    /\ \A t \in Threads :
          (last[t].fn \in {"set_vector", "get_vector"} /\ last[t].arg < 64) =>
              /\ pc[t] = "run"
              /\ Len(log[t]) = last[t].at + 1
              /\ LET i == log[t][Len(log[t])]
                     wr == last[t].fn = "set_vector"
                     s == last[t].set
                 IN /\ (wr /\ s = "X") => i.op = 0
                    /\ (wr /\ s = "Y") => i.op = 1
                    /\ (wr /\ s = "Z") => i.op = 4
                    /\ (~wr /\ s = "X") => i.op = 2
                    /\ (~wr /\ s = "Y") => i.op = 3
                    /\ (~wr /\ s = "Z") => i.op = 5
                    /\ i.w.hi % 64 = last[t].arg

\* row 7 of Y is written, then row 63 of Z is read
C23_Witness ==
    /\ prev["t1"].fn = "set_vector" /\ prev["t1"].set = "Y"
    /\ prev["t1"].arg = 7
    /\ last["t1"].fn = "get_vector" /\ last["t1"].set = "Z"
    /\ last["t1"].arg = 63
    /\ Len(log["t1"]) = 2
    /\ log["t1"][1].op = 1
    /\ log["t1"][2].op = 5

\* the argument tuple read back from an operand word of mac16
outer_product_args(w) ==
    [x |-> IF (w \div 268435456) % 2 = 1 THEN None
           ELSE Some((w \div 1024) % 512),
     y |-> IF (w \div 536870912) % 2 = 1 THEN None ELSE Some(w % 512),
     z_index |-> (w \div 1048576) % 64,
     accumulate |-> (w \div 134217728) % 2 = 0]

\* C24: for offsets below 512 and a row below 64 the operand word of
\* outer_product_i16_xy_to_z has the y offset in bits 8..0, the x offset in
\* bits 18..10, the row in bits 25..20, NOT accumulate in bit 27, "x is
\* None" in bit 28 and "y is None" in bit 29, and every other bit clear, so
\* the arguments can be read back from the word; None gives offset field 0
\* with the excluded bit set and Some(0) field 0 with the bit clear.
C24_OuterProductOperand ==
    \A t \in Threads :
        LET a == last[t].data IN
        (/\ last[t].fn = "outer_product"
         /\ unwrap_or_default(a.x) < 512
         /\ unwrap_or_default(a.y) < 512
         /\ last[t].arg < 64) =>
            /\ last[t].res = "-"
            /\ Len(log[t]) = last[t].at + 1
            /\ log[t][Len(log[t])].w.hi = 0
            /\ LET w == log[t][Len(log[t])].w.lo IN
               /\ w % 512 = unwrap_or_default(a.y)
               /\ (w \div 512) % 2 = 0
               /\ (w \div 1024) % 512 = unwrap_or_default(a.x)
               /\ (w \div 524288) % 2 = 0
               /\ (w \div 1048576) % 64 = last[t].arg
               /\ (w \div 67108864) % 2 = 0
               /\ (w \div 134217728) % 2 = Bit(~a.accumulate)
               /\ (w \div 268435456) % 2 = Bit(a.x = None)
               /\ (w \div 536870912) % 2 = Bit(a.y = None)
               /\ w \div 1073741824 = 0
               /\ a.x \in {None, Some(0)} => (w \div 1024) % 512 = 0
               /\ a.y \in {None, Some(0)} => w % 512 = 0
               /\ outer_product_args(w) =
                     [x |-> a.x, y |-> a.y, z_index |-> last[t].arg,
                      accumulate |-> a.accumulate]

\* x = Some(341), y = None, row 21, accumulate: bits 29, 25..20 and 18..10
C24_Witness ==
    /\ last["t1"].fn = "outer_product"
    /\ last["t1"].data.x = Some(341) /\ last["t1"].data.y = None
    /\ last["t1"].arg = 21 /\ last["t1"].data.accumulate
    /\ Len(log["t1"]) = 1
    /\ log["t1"][1].w.lo = 536870912 + 21 * 1048576 + 341 * 1024

\* C25: load1024_aligned and store1024_aligned of a row of X, Y or Z return
\* after exactly one instruction with the opcode of the 64-byte transfer of
\* the same bank and direction (0, 1, 4 to load, 2, 3, 5 to store), the row
\* in the offset field, and size tag 1 in bits 63..62 where load512 and
\* store512 have tag 0.
C25_Transfer128 ==
    \A t \in Threads :
        (last[t].fn \in LoadStoreFns /\ last[t].arg < NumRows(last[t].set)) =>
            /\ pc[t] = "run"
            /\ Len(log[t]) = last[t].at + 1
            /\ LET i == log[t][Len(log[t])]
                   s == last[t].set
                   ld == last[t].fn \in {"load512", "load1024_aligned"}
                   wide == last[t].fn \in {"load1024_aligned",
                                           "store1024_aligned"}
               IN /\ (ld /\ s = "X") => i.op = 0
                  /\ (ld /\ s = "Y") => i.op = 1
                  /\ (ld /\ s = "Z") => i.op = 4
                  /\ (~ld /\ s = "X") => i.op = 2
                  /\ (~ld /\ s = "Y") => i.op = 3
                  /\ (~ld /\ s = "Z") => i.op = 5
                  /\ i.w.hi % 64 = last[t].arg
                  /\ i.w.hi \div 64 = Bit(wide)

\* row 7 of Y is stored as 64 bytes, then as 128 bytes
C25_Witness ==
    /\ prev["t1"].fn = "store512" /\ prev["t1"].set = "Y"
    /\ prev["t1"].arg = 7
    /\ last["t1"].fn = "store1024_aligned" /\ last["t1"].set = "Y"
    /\ last["t1"].arg = 7
    /\ Len(log["t1"]) = 2
    /\ log["t1"][1].op = log["t1"][2].op
    /\ log["t1"][1].w.hi = 7
    /\ log["t1"][2].w.hi = 64 + 7

\* C26: a call emit_op(op, operand) emits exactly one instruction word,
\* 0x00201000 | ((op & 0x1F) << 5) | r with r the number of the register
\* that holds the operand: bits 9..5 of the word are the opcode, and the
\* expression (h & 0xf) + (h >> 4) * 10 on the decimal digits of r read as
\* the hexadecimal number h gives r.
C26_InstructionWord ==
    \A t \in Threads :
        last[t].fn = "emit_op" =>
            LET a == last[t].data IN
            /\ Len(log[t]) = last[t].at + 1
            /\ RegField(HexOfReg(a.r)) = a.r
            /\ last[t].arg = 2101248 + (a.op % 32) * 32 + a.r
            /\ (last[t].arg \div 32) % 32 = a.op

DataFns ==
    {"set_vector", "set_matrix", "get_vector", "get_matrix_512",
     "get_matrix_4096", "read", "matrix_mul", "outer_product"}
        \cup LoadStoreFns \cup InterleavedFns

C29_TransfersInsideBuffers ==
    \A t \in Threads :
        last[t].fn \in {"set_matrix", "get_vector", "get_matrix_512",
                        "get_matrix_4096"} =>
            \A k \in Segment(t) :
                LET ins == log[t][k] IN
                /\ HwAddr(ins.w) + RowBytes <= ins.buf.len
                /\ last[t].fn = "set_matrix" =>
                      HwAddr(ins.w) + RowBytes
                          <= (HwRow(last[t].set, ins.w) + 1) * SliceStride

====
